---- MODULE Spec2Model ----
(***************************************************************************)
(* Model of scripts/vision_idle_poc.py: the label sanitizer, the image     *)
(* tiler and the discovery pipeline (direct mode and hybrid mode) with its *)
(* novelty gate; of get_embedding of the seeding scripts and of            *)
(* scripts/reset_and_seed_all.py.                                          *)
(*                                                                         *)
(* Strings are sequences of one-character strings.  Thresholds, scores and *)
(* confidences are hundredths (0.88 is 88).  Tile arithmetic is IEEE-754   *)
(* binary64, computed on bit sequences.                                    *)
(***************************************************************************)
EXTENDS Integers, Sequences, FiniteSets, TLC

VARIABLES
    \* the sanitizer: an input list, its cleaning, the cleaning of that
    san_pc, labels, cleaned, recleaned,
    \* the tiler: a Region, the grid, the overlap (a decimal fraction
    \* <<n, d>>) and the tiles computed
    tile_pc, box, grid, overlap, tiles,
    \* the pipeline: the command line of the run, and the run itself
    cfg, run,
    \* two runs on one screen with one environment, for comparing command
    \* lines: each is [cfg |-> the command line, run |-> the run]
    lo, hi,
    \* the helpers outside the flow of main: one call of _extract_json
    \* (the text it is given bare and fenced, and what it returns), and one
    \* call of get_embedding of the seeding scripts
    ext, emb,
    \* one model response whose fragments are sanitized, on the OCR path or
    \* on the label-listing path
    lab,
    \* one run of reset_and_seed_all.py
    rst

sanVars == <<san_pc, labels, cleaned, recleaned>>
tileVars == <<tile_pc, box, grid, overlap, tiles>>

pairVars == <<lo, hi>>
runVars == <<cfg, run, pairVars>>

helperVars == <<ext, emb, lab, rst>>

vars == <<sanVars, tileVars, runVars, helperVars>>

SanIdle ==
    san_pc = "off" /\ labels = <<>> /\ cleaned = <<>> /\ recleaned = <<>>

HelperIdle == ext = <<>> /\ emb = <<>> /\ lab = <<>> /\ rst = <<>>
PairIdle == lo = <<>> /\ hi = <<>>
RunIdle == cfg = <<>> /\ run = <<>> /\ PairIdle

TileIdle ==
    /\ tile_pc = "off"
    /\ box = <<0, 0, 0, 0>>
    /\ grid = 1
    /\ overlap = <<0, 1>>
    /\ tiles = <<>>

----------------------------------------------------------------------------
(* Characters and the string methods the code uses.                        *)

DQ == "\""
SQ == "'"
SP == " "

LowerLetters == {"a", "b", "c", "d", "e", "f", "i", "k", "l", "n", "o",
                 "p", "r", "s", "t", "u", "v", "w"}
UpperLetters == {"A", "B", "C", "D", "E", "O", "S", "U"}
Digits == {"0", "1", "2", "3", "4", "5", "6", "7", "8", "9"}
Whitespace == {" ", "\t", "\n"}
\* the characters U+00E2 and U+FFFD, written as tokens
Mojibake == {"U+00E2", "U+FFFD"}
\* the characters ~, backtick and ^ (the backtick written as a token)
StraySymbols == {"~", "BACKTICK", "^"}

\* re [A-Za-z]
IsAlpha(c) == c \in LowerLetters \cup UpperLetters

\* re \d
IsDigit(c) == c \in Digits

\* str.lower() on one character
LowerChar(c) ==
    CASE c = "A" -> "a" [] c = "B" -> "b" [] c = "C" -> "c" [] c = "D" -> "d"
      [] c = "E" -> "e" [] c = "O" -> "o" [] c = "S" -> "s" [] c = "U" -> "u"
      [] OTHER -> c

\* str.upper() on one character
UpperChar(c) ==
    CASE c = "a" -> "A" [] c = "b" -> "B" [] c = "c" -> "C" [] c = "d" -> "D"
      [] c = "e" -> "E" [] c = "o" -> "O" [] c = "s" -> "S" [] c = "u" -> "U"
      [] OTHER -> c

\* str.lower()
Lower(s) == [i \in 1..Len(s) |-> LowerChar(s[i])]

\* str.strip(chars): drop the leading and the trailing characters in chars
RECURSIVE LStripChars(_, _)
LStripChars(s, chars) ==
    IF s # <<>> /\ Head(s) \in chars THEN LStripChars(Tail(s), chars) ELSE s

RECURSIVE RStripChars(_, _)
RStripChars(s, chars) ==
    IF s # <<>> /\ s[Len(s)] \in chars
    THEN RStripChars(SubSeq(s, 1, Len(s) - 1), chars)
    ELSE s

StripChars(s, chars) == RStripChars(LStripChars(s, chars), chars)

\* str.strip()
Strip(s) == StripChars(s, Whitespace)

\* len(re.findall(class, s))
CountIn(s, P(_)) == Cardinality({i \in 1..Len(s) : P(s[i])})

----------------------------------------------------------------------------
(* Label Sanitizer: _clean_label_list.                                     *)

\* line 94: label.strip().strip('"').strip("'")
TrimLabel(label) == StripChars(StripChars(Strip(label), {DQ}), {SQ})

IsNonAlnum(c) == ~IsAlpha(c) /\ ~IsDigit(c) /\ c \notin Whitespace

\* lines 95-116: the reject tests.  The two ratios are compared as exact
\* fractions: n / len > 0.4 in binary64 iff 10 n > 4 len for these lengths.
RejectLabel(l) ==
    \/ l = <<>>
    \/ Len(l) < 4
    \/ \A i \in 1..Len(l) : ~IsAlpha(l[i])
    \/ \A i \in 1..Len(l) : IsDigit(l[i]) \/ l[i] = "."
    \/ \E i \in 1..Len(l) : l[i] \in Mojibake
    \/ 10 * CountIn(l, IsDigit) > 4 * Len(l)
    \/ 10 * CountIn(l, IsNonAlnum) > 4 * Len(l)
    \/ \E i \in 1..Len(l) : l[i] \in StraySymbols

\* lines 92-117: the first loop
RECURSIVE CleanedOf(_)
CleanedOf(ls) ==
    IF ls = <<>> THEN <<>>
    ELSE LET l == TrimLabel(Head(ls))
         IN  IF RejectLabel(l) THEN CleanedOf(Tail(ls))
             ELSE <<l>> \o CleanedOf(Tail(ls))

\* line 122: the deduplication key
DedupeKeyExact(l) == l
DedupeKey(l) == Lower(l)

\* lines 119-127: dedupe while preserving order
RECURSIVE DedupeFrom(_, _)
DedupeFrom(ls, seen) ==
    IF ls = <<>> THEN <<>>
    ELSE LET key == DedupeKey(Head(ls))
         IN  IF key \in seen THEN DedupeFrom(Tail(ls), seen)
             ELSE <<Head(ls)>> \o DedupeFrom(Tail(ls), seen \cup {key})

clean_label_list(ls) == DedupeFrom(CleanedOf(ls), {})

----------------------------------------------------------------------------
(* Inputs of the sanitizer: a word, wrapped on each side in up to MaxWrap  *)
(* quote or blank characters.                                              *)

MaxWrap == 2
MaxLabels == 2

abcd == <<"a", "b", "c", "d">>
ABCD == <<"A", "B", "C", "D">>
ab == <<"a", "b">>

Cores == {abcd, ABCD, ab}
WrapChars == {DQ, SQ, SP}

SeqsUpTo(S, n) == UNION {[1..k -> S] : k \in 0..n}

Wrapped(depth) ==
    {pre \o core \o post : pre \in SeqsUpTo(WrapChars, depth),
                           core \in Cores,
                           post \in SeqsUpTo(WrapChars, depth)}

\* lists of lightly wrapped labels, and single deeply wrapped labels
InputLists ==
    SeqsUpTo(Wrapped(1), MaxLabels) \cup {<<l>> : l \in Wrapped(MaxWrap)}

InitClean ==
    /\ san_pc = "raw"
    /\ labels \in InputLists
    /\ cleaned = <<>>
    /\ recleaned = <<>>
    /\ TileIdle
    /\ RunIdle
    /\ HelperIdle

CleanOnce ==
    /\ san_pc = "raw"
    /\ cleaned' = clean_label_list(labels)
    /\ san_pc' = "cleaned"
    /\ UNCHANGED <<labels, recleaned, tileVars, runVars, helperVars>>

CleanAgain ==
    /\ san_pc = "cleaned"
    /\ recleaned' = clean_label_list(cleaned)
    /\ san_pc' = "recleaned"
    /\ UNCHANGED <<labels, cleaned, tileVars, runVars, helperVars>>

NextClean == CleanOnce \/ CleanAgain

SpecClean == InitClean /\ [][NextClean]_vars

----------------------------------------------------------------------------
(* Python floats (IEEE-754 binary64, round to nearest, ties to even) for   *)
(* the tiler's arithmetic.  A natural number of any size is a sequence of  *)
(* limbs in base 2^15, least significant first; a float is m * 2^e with    *)
(* m < 2^53 such a number.  Only non-negative values occur.                *)

Limb == 32768
LimbBits == 15
Precision == 53

RECURSIVE Pow2(_)
Pow2(k) == IF k = 0 THEN 1 ELSE 2 * Pow2(k - 1)

RECURSIVE BNorm(_)
BNorm(a) ==
    IF a # <<>> /\ a[Len(a)] = 0 THEN BNorm(SubSeq(a, 1, Len(a) - 1)) ELSE a

RECURSIVE BFromInt(_)
BFromInt(k) == IF k = 0 THEN <<>> ELSE <<k % Limb>> \o BFromInt(k \div Limb)

RECURSIVE BToInt(_)
BToInt(a) == IF a = <<>> THEN 0 ELSE Head(a) + Limb * BToInt(Tail(a))

LimbAt(a, i) == IF i <= Len(a) THEN a[i] ELSE 0

RECURSIVE BAddFrom(_, _, _, _)
BAddFrom(a, b, i, carry) ==
    IF i > Len(a) /\ i > Len(b)
    THEN IF carry = 0 THEN <<>> ELSE <<carry>>
    ELSE LET t == LimbAt(a, i) + LimbAt(b, i) + carry
         IN  <<t % Limb>> \o BAddFrom(a, b, i + 1, t \div Limb)

BAdd(a, b) == BAddFrom(a, b, 1, 0)

\* a * k for 0 <= k < 2^15
RECURSIVE BMulSmallFrom(_, _, _, _)
BMulSmallFrom(a, k, i, carry) ==
    IF i > Len(a)
    THEN IF carry = 0 THEN <<>> ELSE <<carry>>
    ELSE LET t == a[i] * k + carry
         IN  <<t % Limb>> \o BMulSmallFrom(a, k, i + 1, t \div Limb)

BMulSmall(a, k) == BNorm(BMulSmallFrom(a, k, 1, 0))

ZeroLimbs(n) == [i \in 1..n |-> 0]

RECURSIVE BMulFrom(_, _, _)
BMulFrom(a, b, j) ==
    IF j > Len(b) THEN <<>>
    ELSE BAdd(ZeroLimbs(j - 1) \o BMulSmall(a, b[j]), BMulFrom(a, b, j + 1))

BMul(a, b) == BNorm(BMulFrom(a, b, 1))

\* a * 2^n
BShl(a, n) ==
    IF a = <<>> THEN <<>>
    ELSE ZeroLimbs(n \div LimbBits) \o BMulSmall(a, Pow2(n % LimbBits))

\* floor(a / 2^n)
BShr(a, n) ==
    LET drop == n \div LimbBits
        by == Pow2(n % LimbBits)
        up == Limb \div by
    IN  BNorm([i \in 1..(IF Len(a) > drop THEN Len(a) - drop ELSE 0) |->
                 (a[i + drop] \div by) + (LimbAt(a, i + drop + 1) % by) * up])

\* bit k of a (bit 0 is the least significant)
BBit(a, k) == (LimbAt(a, (k \div LimbBits) + 1) \div Pow2(k % LimbBits)) % 2

\* whether one of the bits 0 .. k-1 of a is set
BLowBits(a, k) ==
    \/ \E i \in 1..(k \div LimbBits) : LimbAt(a, i) # 0
    \/ LimbAt(a, (k \div LimbBits) + 1) % Pow2(k % LimbBits) # 0

RECURSIVE IntBitLen(_)
IntBitLen(k) == IF k = 0 THEN 0 ELSE 1 + IntBitLen(k \div 2)

BBitLen(a) ==
    LET n == BNorm(a)
    IN  IF n = <<>> THEN 0 ELSE LimbBits * (Len(n) - 1) + IntBitLen(n[Len(n)])

\* the float nearest to a * 2^e, ties to even
FRound(a, e) ==
    LET len == BBitLen(a)
        d == len - Precision
    IN  IF d <= 0 THEN [m |-> BNorm(a), e |-> e]
        ELSE LET up == BBit(a, d - 1) = 1
                       /\ (BLowBits(a, d - 1) \/ BBit(a, d) = 1)
             IN  [m |-> BAdd(BShr(a, d), IF up THEN <<1>> ELSE <<>>),
                  e |-> e + d]

\* float(k) for an int k >= 0
FFromInt(k) == [m |-> BFromInt(k), e |-> 0]

\* floor(a / q) and a % q for 0 < q < 2^15, from the top limb down
RECURSIVE BDivSmallFrom(_, _, _, _)
BDivSmallFrom(a, q, i, rem) ==
    IF i = 0 THEN [quot |-> <<>>, rem |-> rem]
    ELSE LET t == rem * Limb + a[i]
             rest == BDivSmallFrom(a, q, i - 1, t % q)
         IN  [quot |-> rest.quot \o <<t \div q>>, rem |-> rest.rem]

BDivSmall(a, q) == BDivSmallFrom(a, q, Len(a), 0)

\* the float p / q for ints p >= 0, 0 < q < 2^9: the quotient of p * 2^64
\* has at least 55 bits, and a last bit records a remainder
DivShift == 64
FDivInt(p, q) ==
    LET d == BDivSmall(BShl(BFromInt(p), DivShift), q)
        sticky == IF d.rem = 0 THEN <<>> ELSE <<1>>
    IN  FRound(BAdd(BShl(BNorm(d.quot), 1), sticky), 0 - DivShift - 1)

FMul(x, y) == FRound(BMul(x.m, y.m), x.e + y.e)

FAdd(x, y) ==
    IF x.e >= y.e
    THEN FRound(BAdd(BShl(x.m, x.e - y.e), y.m), y.e)
    ELSE FRound(BAdd(BShl(y.m, y.e - x.e), x.m), x.e)

\* int(x): truncation (x >= 0)
FInt(x) ==
    IF x.e >= 0 THEN BToInt(BShl(x.m, x.e)) ELSE BToInt(BShr(x.m, 0 - x.e))

\* x / 2 (exact)
FHalf(x) == [m |-> x.m, e |-> x.e - 1]

----------------------------------------------------------------------------
(* Image Tiler: _tile_roi.  A tile is <<tx0, ty0, tx1, ty1>>, the pixels   *)
(* tx0 <= x < tx1, ty0 <= y < ty1.                                         *)

Max(a, b) == IF a >= b THEN a ELSE b
Min(a, b) == IF a <= b THEN a ELSE b

\* lines 212-213: int(tile_w * overlap / 2)
Pad(tile_w, f) == FInt(FHalf(FMul(tile_w, f)))

\* lines 216-219: int(x0 + c * tile_w)
TileEdge(x0, c, tile_w) == FInt(FAdd(FFromInt(x0), FMul(FFromInt(c), tile_w)))

\* lines 205-225; f is the float of the overlap
tile_roi(b, g, f) ==
    LET x0 == b[1]
        y0 == b[2]
        x1 == b[3]
        y1 == b[4]
        tile_w == FDivInt(x1 - x0, g)
        tile_h == FDivInt(y1 - y0, g)
        pad_x == Pad(tile_w, f)
        pad_y == Pad(tile_h, f)
    IN  [k \in 1..(g * g) |->
            LET r == (k - 1) \div g
                c == (k - 1) % g
            IN  << Max(x0, TileEdge(x0, c, tile_w) - pad_x),
                   Max(y0, TileEdge(y0, r, tile_h) - pad_y),
                   Min(x1, TileEdge(x0, c + 1, tile_w) + pad_x),
                   Min(y1, TileEdge(y0, r + 1, tile_h) + pad_y) >>]

\* float("n/d" written as a decimal): the float nearest to n / d
FloatOf(frac) == FDivInt(frac[1], frac[2])

MaxGrid == 7

Origins == {0, 3}
Sides == {2, 10, 61}
Regions ==
    {<<x0, y0, x0 + w, y0 + h>> : x0 \in Origins, y0 \in Origins,
                                  w \in Sides, h \in Sides}
Overlaps == {<<0, 1>>, <<3, 10>>, <<1, 1>>}

InitTile ==
    /\ tile_pc = "input"
    /\ box \in Regions
    /\ grid \in 1..MaxGrid
    /\ overlap \in Overlaps
    /\ tiles = <<>>
    /\ SanIdle
    /\ RunIdle
    /\ HelperIdle

TileRoi ==
    /\ tile_pc = "input"
    /\ tiles' = tile_roi(box, grid, FloatOf(overlap))
    /\ tile_pc' = "tiled"
    /\ UNCHANGED <<box, grid, overlap, sanVars, runVars, helperVars>>

NextTile == TileRoi

SpecTile == InitTile /\ [][NextTile]_vars

----------------------------------------------------------------------------
(* The pipeline: main().  cfg is the parsed command line; run holds the    *)
(* locals of main and, for the claims, the history of the run: the         *)
(* requests issued (inferred, writes), the elements whose loop iteration   *)
(* ended (handled) and the external call that failed (failed).             *)

DefaultMemoryThreshold == 88
DefaultVisionThreshold == 72
DefaultMaxElements == 40
FallbackConfidence == 40

\* bounds of the model: the elements read from a JSON response, the
\* elements read from a list of bare labels, and --min-questions
MaxJsonElements == 2
MaxLabelElements == 3
MaxMinQuestions == 2

MaxElems(src) == IF src = "json" THEN MaxJsonElements ELSE MaxLabelElements

\* bounds of the model in hybrid mode: the tiles recognized, the items of
\* one role/purpose response
MaxTiles == 2
MaxItems == 2

Save == <<"S", "a", "v", "e">>
save_padded == <<" ", "s", "a", "v", "e", " ">>
Open == <<"O", "p", "e", "n">>
Edit == <<"E", "d", "i", "t">>
saves == <<"s", "a", "v", "e", "s">>
opens_quoted == <<DQ, "o", "p", "e", "n", "s", DQ>>
unknown == <<"U", "n", "k", "n", "o", "w", "n">>
button == <<"b", "u", "t", "t", "o", "n">>
icon == <<"i", "c", "o", "n">>
other == <<"o", "t", "h", "e", "r">>

\* line 714: the answers that are no purpose
Degenerate ==
    { <<"u", "n", "k", "n", "o", "w", "n">>,
      <<"u", "n", "s", "u", "r", "e">>,
      <<"i", "'", "m", " ", "n", "o", "t", " ", "s", "u", "r", "e">> }

RawLabels == {Save, save_padded, Open, Edit, <<>>}
Purposes == {<<>>, saves}
\* the confidences a response carries: 0.4, 0.72 and 1.5
Confidences == {FallbackConfidence, DefaultVisionThreshold, 150}
Scores == {30, DefaultMemoryThreshold}
PurposeAnswers == {<<>>, unknown, opens_quoted}

\* the elements of a decoded response (lines 371-377); the label Edit is
\* left to the responses that give bare labels
JsonElements ==
    [label : RawLabels \ {Edit}, role : {button}, purpose : Purposes,
     confidence : Confidences]

\* lines 383-387 and 423-427: the elements made from bare labels
Synthesized(label) ==
    [label |-> label, role |-> other, purpose |-> <<>>,
     confidence |-> FallbackConfidence]

ElementsOf(src) ==
    CASE src = "json" -> JsonElements
      [] src = "regex" -> {Synthesized(Strip(l)) : l \in RawLabels \ {<<>>}}
      [] src = "fallback" ->
            {Synthesized(l) : l \in {Save, Open, Edit}}
      [] OTHER -> {}

\* how a request ends other than with a 2xx answer
Failures == {"timeout", "connection_error", "http_500"}

\* the command lines: --text-purpose-model matters in hybrid mode only
Configs ==
    {c \in [hybrid : BOOLEAN,
            text_purpose_model : BOOLEAN,
            min_questions : 0..MaxMinQuestions,
            mem_threshold : {DefaultMemoryThreshold},
            vision_threshold : {DefaultVisionThreshold},
            max_elements : {1, DefaultMaxElements}] :
        /\ ~c.hybrid => c.text_purpose_model
        /\ c.hybrid => c.min_questions < MaxItems}

NoElement ==
    [label |-> <<>>, role |-> <<>>, purpose |-> <<>>, confidence |-> 0,
     extracted_purpose |-> <<>>, extracted_confidence |-> 0]

StartOfRun ==
    [pc |-> "vision", src |-> "none", chain |-> <<>>, taken |-> 0,
     seen_labels |-> {}, processed |-> 0,
     cur |-> NoElement, score |-> 0, goal |-> <<>>, save_vector |-> 0,
     save_answer |-> "none", lookup |-> "none",
     questions |-> <<>>, learned |-> <<>>,
     inferred |-> <<>>, writes |-> <<>>, handled |-> <<>>,
     tiles_done |-> 0, ocr_log |-> <<>>, collected |-> <<>>,
     ocr_labels |-> <<>>,
     items |-> <<>>, valid_items |-> <<>>, text_requests |-> 0,
     requests |-> <<>>, vision_parsed |-> FALSE, vision_valid |-> FALSE,
     tier |-> "none",
     passed |-> <<>>, failed |-> "none", failed_at |-> "none",
     reported |-> FALSE]

\* an exception leaves main: requests.post raised (timeout, transport
\* error) or raise_for_status did (lines 314-315, 331-332, 340, 353)
Raise(r, call) ==
    [r EXCEPT !.pc = "crashed", !.failed = call, !.failed_at = r.pc]

\* line 434: where main goes once the elements are extracted
AfterExtraction(c) == IF c.hybrid THEN "ocr" ELSE "loop"

\* the guard of the regex scan that ignores what was found before it
ScanAlways(elements_found) == TRUE

\* line 380: `if not elements:` in front of the regex scan
RegexApplies(elements_found) == ~elements_found

\* line 389: `if not elements:` in front of the label-listing request
FallbackApplies(elements_found) == ~elements_found

\* lines 355-387: the first request and what its response yields; the
\* response is given by what each extraction step finds in it
VisionStep(r, c, out) ==
    IF out.status \in Failures THEN Raise(r, "generate")
    ELSE LET scanned == RegexApplies(out.decoded)
             assigned == scanned /\ out.label_matches # "none"
             found == IF assigned THEN out.label_matches = "labels"
                      ELSE out.decoded
             src == IF ~found THEN "none"
                    ELSE IF assigned THEN "regex" ELSE "json"
             steps == <<[step |-> "json", found |-> out.decoded]>>
                      \o IF scanned
                         THEN <<[step |-> "regex",
                                 found |-> out.label_matches = "labels"]>>
                         ELSE <<>>
         IN  IF FallbackApplies(found)
             THEN [r EXCEPT !.chain = steps, !.pc = "fallback"]
             ELSE [r EXCEPT !.chain = steps, !.src = src,
                            !.pc = AfterExtraction(c)]

\* lines 389-427: the label-listing request
FallbackStep(r, c, out) ==
    IF out \in Failures THEN Raise(r, "generate")
    ELSE [r EXCEPT !.chain = Append(@, [step |-> "fallback",
                                        found |-> out = "labels"]),
                   !.src = IF out = "labels" THEN "fallback" ELSE "none",
                   !.pc = AfterExtraction(c)]

\* lines 668-681
NormalizeElement(e) ==
    [label |-> Strip(e.label), role |-> Strip(e.role),
     purpose |-> Strip(e.purpose), confidence |-> e.confidence,
     extracted_purpose |-> Strip(e.purpose),
     extracted_confidence |-> e.confidence]

\* lines 662-691: the head of the loop body
TakeStep(r, c, e) ==
    LET n == NormalizeElement(e)
        label_key == Lower(n.label)
        read == [r EXCEPT !.taken = @ + 1, !.save_answer = "none",
                          !.lookup = "none"]
    IN  IF n.label = <<>> THEN read
        ELSE IF label_key \in r.seen_labels THEN read
        ELSE IF r.processed + 1 > c.max_elements
        THEN [read EXCEPT !.seen_labels = @ \cup {label_key},
                          !.processed = @ + 1, !.pc = "report"]
        ELSE [read EXCEPT !.seen_labels = @ \cup {label_key},
                          !.processed = @ + 1, !.cur = n,
                          !.pc = "embed_query"]

\* the end of one loop iteration
EndIteration(r, record_vector) ==
    [r EXCEPT !.handled = Append(@, [label |-> r.cur.label,
                                     extracted_purpose |->
                                         r.cur.extracted_purpose,
                                     purpose |-> r.cur.purpose,
                                     confidence |-> r.cur.confidence,
                                     extracted_confidence |->
                                         r.cur.extracted_confidence,
                                     score |-> r.score,
                                     record_vector |-> record_vector]),
              !.cur = NoElement, !.score = 0, !.goal = <<>>,
              !.save_vector = 0, !.pc = "loop"]

\* lines 695-696 with 329-333: the embedding of the query
EmbedQueryStep(r, out) ==
    IF out \in Failures THEN Raise(r, "embed")
    ELSE IF out = "empty"
    THEN [r EXCEPT !.score = 0, !.lookup = "empty_embedding", !.pc = "gate"]
    ELSE [r EXCEPT !.pc = "search"]

\* lines 335-344: _qdrant_search_local
SearchStep(r, out) ==
    IF out.status \in Failures THEN Raise(r, "search")
    ELSE IF out.status = "http_404"
    THEN [r EXCEPT !.score = 0, !.lookup = "http_404", !.pc = "gate"]
    ELSE IF out.status = "no_result"
    THEN [r EXCEPT !.score = 0, !.lookup = "no_result", !.pc = "gate"]
    ELSE [r EXCEPT !.score = out.score, !.lookup = "match", !.pc = "gate"]

\* line 699
KnownElementStrict(score, mem_threshold) == score > mem_threshold
KnownElementAtZero(score, mem_threshold) == score >= 0
KnownElement(score, mem_threshold) == score >= mem_threshold

\* lines 699-702
GateStep(r, c) ==
    IF KnownElement(r.score, c.mem_threshold)
    THEN EndIteration(r, "not_requested")
    ELSE [r EXCEPT !.passed = Append(@, r.cur.label),
                   !.pc = IF r.cur.purpose = <<>> THEN "purpose" ELSE "admit"]

\* lines 703-715: the purpose-inference request
PurposeStep(r, out) ==
    LET asked == [r EXCEPT !.inferred = Append(@, r.cur.label),
                           !.lookup = "none"]
        purpose_response == StripChars(Strip(out.text), {DQ})
    IN  IF out.status \in Failures THEN Raise(asked, "generate")
        ELSE IF purpose_response # <<>>
                /\ Lower(purpose_response) \notin Degenerate
        THEN [asked EXCEPT !.cur.purpose = purpose_response, !.pc = "admit"]
        ELSE [asked EXCEPT !.pc = "admit"]

\* lines 84-88
normalize_goal_as_is(purpose, label) ==
    IF Strip(purpose) = <<>> THEN <<"U", "s", "e", " ">> \o label
    ELSE Strip(purpose)
normalize_goal(purpose, label) ==
    LET p == Strip(purpose)
    IN  IF p = <<>> THEN <<"U", "s", "e", " ">> \o label
        ELSE <<UpperChar(p[1])>> \o Tail(p)

\* line 717
AdmitsAnyPurpose(purpose, confidence, vision_threshold) == purpose # <<>>
Admits(purpose, confidence, vision_threshold) ==
    purpose # <<>> /\ confidence >= vision_threshold

\* line 739
QuestionFitsInclusive(questions, min_questions) ==
    Len(questions) <= min_questions
QuestionFits(questions, min_questions) == Len(questions) < min_questions

\* line 740 and line 640
Question(label) == <<"What does ", DQ>> \o label \o <<DQ, " do?">>

\* line 737 and line 638
Learned(e) ==
    [label |-> e.label,
     role |-> IF e.role # <<>> THEN e.role ELSE other,
     purpose |-> e.purpose]

\* lines 717-718 and 738-740
AdmitStep(r, c) ==
    LET q == [r EXCEPT !.lookup = "none"]
    IN  IF Admits(r.cur.purpose, r.cur.confidence, c.vision_threshold)
        THEN [q EXCEPT !.goal = normalize_goal(r.cur.purpose, r.cur.label),
                       !.pc = "embed_record"]
        ELSE IF QuestionFits(r.questions, c.min_questions)
        THEN EndIteration([q EXCEPT !.questions =
                                        Append(@, Question(r.cur.label))],
                          "not_requested")
        ELSE EndIteration(q, "not_requested")

\* the dimensionality of the collection and of the embedding model
ExpectedDimension == 768

\* the length of the vector an embedding request answers with
VectorLength(out) ==
    CASE out = "vector" -> ExpectedDimension
      [] out = "short_vector" -> ExpectedDimension \div 2
      [] OTHER -> 0

\* lines 719-722 and 737: the embedding of the record text
EmbedRecordStep(r, out) ==
    IF out \in Failures THEN Raise(r, "embed")
    ELSE IF out = "empty"
    THEN EndIteration([r EXCEPT !.learned = Append(@, Learned(r.cur))],
                      "empty")
    ELSE [r EXCEPT !.save_vector = VectorLength(out), !.pc = "save"]

\* lines 723-736: the payload of the record
Payload(r) ==
    [goal |-> r.goal, target_text |-> r.cur.label, fact |-> r.cur.purpose,
     role |-> r.cur.role, purpose |-> r.cur.purpose,
     confidence |-> r.cur.confidence]

\* a save that returns only when the store accepted the point
SaveReturnsOnSuccess(out) == out = "ok"

\* lines 349-353: _qdrant_save_local returns on 404 and 400 and on a status
\* that raise_for_status lets pass
SaveReturns(out) == out \in {"ok", "http_404", "http_400"}

\* lines 346-353 and 737: _qdrant_save_local
SaveStep(r, out) ==
    LET sent == [r EXCEPT !.writes =
                              Append(@, [vector_len |-> r.save_vector]
                                            @@ Payload(r)),
                          !.save_answer = out]
    IN  IF SaveReturns(out)
        THEN EndIteration([sent EXCEPT !.learned = Append(@, Learned(r.cur))],
                          "vector")
        ELSE Raise(sent, "upsert")

\* lines 742-756: the report
ReportStep(r) ==
    [r EXCEPT !.reported = TRUE, !.save_answer = "none", !.lookup = "none",
              !.pc = "done"]

----------------------------------------------------------------------------
(* Hybrid mode: lines 434-657.                                             *)

\* the characters U+2018, U+2019, U+201C, U+201D, written as tokens
StraightQuote(ch) ==
    CASE ch \in {"U+2018", "U+2019"} -> SQ
      [] ch \in {"U+201C", "U+201D"} -> DQ
      [] OTHER -> ch

\* re.sub(r"\s+", " ", s)
RECURSIVE CollapseSpaces(_)
CollapseSpaces(s) ==
    IF s = <<>> THEN <<>>
    ELSE IF Head(s) \in Whitespace
    THEN <<SP>> \o CollapseSpaces(LStripChars(s, Whitespace))
    ELSE <<Head(s)>> \o CollapseSpaces(Tail(s))

\* line 163; U+00B7 and U+2022 written as tokens
BracketChars == {"|", "[", "]", "{", "}", "(", ")", "<", ">", "U+00B7", "U+2022"}

\* lines 160-163
NormalizeFragment(item) ==
    StripChars(Strip(CollapseSpaces([i \in 1..Len(item) |->
                                        StraightQuote(item[i])])),
               BracketChars)

RECURSIVE NormalizedOf(_)
NormalizedOf(texts) ==
    IF texts = <<>> THEN <<>>
    ELSE LET t == Strip(Head(texts))
             n == NormalizeFragment(t)
         IN  IF t = <<>> \/ n = <<>> THEN NormalizedOf(Tail(texts))
             ELSE <<n>> \o NormalizedOf(Tail(texts))

\* lines 145-166, from the text column of the records
extract_ocr_labels_from_tsv(texts) == clean_label_list(NormalizedOf(texts))

\* what the tool wrote, whatever became of the tool
tesseract_stdout(out) == out.texts

\* lines 130-142: the tool's output, or "" when subprocess.run raised (tool
\* unavailable, output not decodable) or the tool exited non-zero
run_tesseract_tsv(out) == IF out.status = "ok" THEN out.texts ELSE <<>>

\* lines 130-142 and 180-191: one tile; a tool that is unavailable, exits
\* non-zero or whose output cannot be decoded gives no text
OcrTileStep(r, out) ==
    LET fragments == extract_ocr_labels_from_tsv(run_tesseract_tsv(out))
    IN  [r EXCEPT !.tiles_done = @ + 1,
                  !.ocr_log = Append(@, [failed |-> out.status # "ok",
                                         fragments |-> fragments]),
                  !.collected = @ \o fragments]

\* s[:n] for n >= 0
Take(s, n) == SubSeq(s, 1, Min(n, Len(s)))

\* lines 447 and 456-458; collected is not read again
OcrDoneStep(r, c) ==
    LET ocr_labels == Take(clean_label_list(r.collected), c.max_elements)
        read == [r EXCEPT !.ocr_labels = ocr_labels, !.collected = <<>>,
                          !.ocr_log = <<>>]
    IN  IF ocr_labels = <<>> THEN [read EXCEPT !.pc = "returned"]
        ELSE [read EXCEPT !.pc = "hybrid_generate"]

\* lines 503-508 and 534-539: an item of a line Label | role | purpose
Triplet(t, confidence) ==
    [label |-> Strip(t.label), role |-> Strip(t.role),
     purpose |-> Strip(t.purpose), confidence |-> confidence,
     supplied |-> FALSE]

\* lines 301-316: the body of a request of _ollama_generate_local, whose
\* prompt lists labels_list
VisionRequest(labels_list) ==
    [model |-> "vision", image |-> TRUE, labels |-> labels_list]

\* lines 318-327: the body of a request of _ollama_generate_text_local,
\* which has no "images" key
TextRequest(labels_list) ==
    [model |-> "text", image |-> FALSE, labels |-> labels_list]

\* lines 545-563: one item of valid_items
Validated(item) ==
    [label |-> Strip(item.label),
     role |-> IF \E i \in 1..Len(Strip(item.role)) : Strip(item.role)[i] = "|"
              THEN other ELSE Strip(item.role),
     purpose |-> Strip(item.purpose),
     confidence |-> IF "confidence" \in DOMAIN item THEN item.confidence
                    ELSE 0,
     supplied |-> item.supplied]

RECURSIVE ValidItems(_)
ValidItems(items) ==
    IF items = <<>> THEN <<>>
    ELSE IF Strip(Head(items).label) = <<>> THEN ValidItems(Tail(items))
    ELSE <<Validated(Head(items))>> \o ValidItems(Tail(items))

\* lines 486-494: an item of the decoded response, marked with whether the
\* response gave it a confidence
FromResponse(item) ==
    [supplied |-> "confidence" \in DOMAIN item] @@ item

\* lines 473-510: the role/purpose request to the vision model
HybridGenerateStep(r, c, out) ==
    LET items == IF out.kind = "json"
                 THEN [i \in 1..Len(out.items) |-> FromResponse(out.items[i])]
                 ELSE [i \in 1..Len(out.items) |-> Triplet(out.items[i], 80)]
        asked == [r EXCEPT !.requests = Append(@, VisionRequest(r.ocr_labels))]
    IN  IF out.status \in Failures THEN Raise(asked, "generate")
        ELSE [asked EXCEPT !.items = items,
                           !.tier = IF out.kind = "json" THEN "vision_json"
                                    ELSE "vision_lines",
                           !.vision_parsed = items # <<>>,
                           !.vision_valid = ValidItems(items) # <<>>,
                           !.pc = IF items = <<>> /\ c.text_purpose_model
                                  THEN "text_generate" ELSE "validate"]

\* lines 510-539: the same labels to the text-only model
TextGenerateStep(r, out) ==
    LET asked == [r EXCEPT !.text_requests = @ + 1,
                           !.requests = Append(@, TextRequest(r.ocr_labels))]
    IN  IF out.status \in Failures THEN Raise(asked, "generate")
        ELSE [asked EXCEPT !.items = [i \in 1..Len(out.items) |->
                                         Triplet(out.items[i], 70)],
                           !.tier = "text_lines",
                           !.pc = "validate"]

\* a second text request whenever a text model is configured
RetryWheneverConfigured(valid_items, may_retry) == may_retry

\* line 565: `if not valid_items and text_purpose_model:`
RetryApplies(valid_items, may_retry) == valid_items = <<>> /\ may_retry

\* lines 565 and 627-629: after valid_items is known
AfterValidation(valid_items, may_retry) ==
    IF RetryApplies(valid_items, may_retry) THEN "text_retry"
    ELSE IF valid_items # <<>> THEN "outcomes"
    ELSE "returned"

\* lines 541-565; items is not read again
ValidateStep(r, c) ==
    LET valid_items == ValidItems(r.items)
    IN  [r EXCEPT !.valid_items = valid_items, !.items = <<>>,
                  !.pc = AfterValidation(valid_items, c.text_purpose_model)]

Roles == {button, <<"t", "a", "b">>, <<"m", "e", "n", "u">>,
          <<"l", "i", "n", "k">>, <<"i", "n", "p", "u", "t">>,
          <<"f", "o", "l", "d", "e", "r">>, <<"w", "i", "n", "d", "o", "w">>,
          other}

\* lines 597 and 624
SalvageConfidence == 70

\* lines 585-598 and 601-625: an item salvaged from the second text
\* answer, which held ["label", "role", "purpose"] triples or lines
\* Label | role | purpose, whose label and purpose lose their quotes
Salvaged(t, kind) ==
    [label |-> IF kind = "lines" THEN TrimLabel(t.label) ELSE Strip(t.label),
     role |-> IF Lower(Strip(t.role)) \in Roles THEN Lower(Strip(t.role))
              ELSE other,
     purpose |-> IF kind = "lines" THEN TrimLabel(t.purpose)
                 ELSE Strip(t.purpose),
     confidence |-> SalvageConfidence,
     supplied |-> FALSE]

RECURSIVE SalvagedItems(_, _)
SalvagedItems(items, kind) ==
    IF items = <<>> THEN <<>>
    ELSE IF Salvaged(Head(items), kind).label = <<>>
    THEN SalvagedItems(Tail(items), kind)
    ELSE <<Salvaged(Head(items), kind)>> \o SalvagedItems(Tail(items), kind)

\* lines 565-629: the second request to the text-only model
TextRetryStep(r, out) ==
    LET valid_items == SalvagedItems(out.items, out.kind)
        asked == [r EXCEPT !.text_requests = @ + 1,
                           !.requests = Append(@, TextRequest(r.ocr_labels))]
    IN  IF out.status \in Failures THEN Raise(asked, "generate")
        ELSE [asked EXCEPT !.valid_items = valid_items,
                           !.tier = "salvage",
                           !.pc = AfterValidation(valid_items, FALSE)]

\* lines 631-640: one item of valid_items
HybridOutcomeStep(r, c) ==
    LET item == r.valid_items[r.taken + 1]
        done == [r EXCEPT !.taken = @ + 1,
                          !.handled = Append(@, [label |-> item.label,
                                                 extracted_purpose |-> item.purpose,
                                                 purpose |-> item.purpose,
                                                 confidence |-> item.confidence,
                                                 extracted_confidence |->
                                                     item.confidence,
                                                 score |-> 0,
                                                 record_vector |-> "not_requested"])]
    IN  IF item.purpose # <<>>
        THEN [done EXCEPT !.learned = Append(@, Learned(item))]
        ELSE IF QuestionFits(r.questions, c.min_questions)
        THEN [done EXCEPT !.questions = Append(@, Question(item.label))]
        ELSE done

\* what the first response holds: whether it decodes to a non-empty
\* list of elements, and what the "label" pattern matches in it
VisionResponses ==
    [status : {"ok"}, decoded : BOOLEAN,
     label_matches : {"none", "blank", "labels"}]

VisionOutcomes ==
    VisionResponses
        \cup [status : Failures, decoded : {FALSE}, label_matches : {"none"}]
FallbackOutcomes == {"labels", "nothing"} \cup Failures
EmbedOutcomes == {"vector", "short_vector", "empty"} \cup Failures
SearchOutcomes ==
    {[status |-> "ok", score |-> s] : s \in Scores}
        \cup {[status |-> x, score |-> 0] :
                 x \in {"http_404", "no_result"} \cup Failures}
PurposeOutcomes ==
    {[status |-> "ok", text |-> a] : a \in PurposeAnswers}
        \cup {[status |-> x, text |-> <<>>] : x \in Failures}
SaveOutcomes == {"ok", "http_404", "http_400"} \cup Failures

\* what the recognition tool reads on one tile
TileTexts == {<<Save>>, <<save_padded, Open>>}
OcrOutcomes ==
    {[status |-> "ok", texts |-> t] : t \in TileTexts}
        \cup {[status |-> "nonzero_exit", texts |-> t] :
                 t \in TileTexts \cup {<<>>}}
        \cup {[status |-> x, texts |-> <<>>] :
                 x \in {"unavailable", "decode_error"}}

\* the items a role/purpose answer holds
AnswerItem(label, role, purpose) ==
    [label |-> label, role |-> role, purpose |-> purpose]
AnswerItems ==
    {AnswerItem(Save, button, saves), AnswerItem(Save, button, <<>>),
     AnswerItem(Open, icon, saves), AnswerItem(Open, icon, <<>>),
     AnswerItem(<<>>, button, saves), AnswerItem(save_padded, <<>>, <<>>)}
\* the items of a decoded answer: with a confidence of 0.9, or without one
JsonItems ==
    {[label |-> t.label, role |-> t.role, purpose |-> t.purpose,
      confidence |-> 90] : t \in AnswerItems}
        \cup {AnswerItem(Open, button, saves)}
HybridOutcomes ==
    {[status |-> "ok", kind |-> "json", items |-> i] :
        i \in SeqsUpTo(JsonItems, MaxItems)}
        \cup {[status |-> "ok", kind |-> "lines", items |-> i] :
                 i \in SeqsUpTo(AnswerItems, MaxItems) \ {<<>>}}
        \cup {[status |-> x, kind |-> "lines", items |-> <<>>] : x \in Failures}
TextOutcomes ==
    {[status |-> "ok", items |-> i] : i \in SeqsUpTo(AnswerItems, MaxItems)}
        \cup {[status |-> x, items |-> <<>>] : x \in Failures}
\* a triple of the second answer has no empty part (line 579)
Triples ==
    {t \in AnswerItems : t.label # <<>> /\ t.role # <<>> /\ t.purpose # <<>>}
RetryOutcomes ==
    {[status |-> "ok", kind |-> "lines", items |-> i] :
        i \in SeqsUpTo(AnswerItems, MaxItems)}
        \cup {[status |-> "ok", kind |-> "triples", items |-> i] :
                 i \in SeqsUpTo(Triples, MaxItems) \ {<<>>}}
        \cup {[status |-> x, kind |-> "lines", items |-> <<>>] : x \in Failures}

Init ==
    /\ cfg \in Configs
    /\ run = StartOfRun
    /\ PairIdle
    /\ SanIdle
    /\ TileIdle
    /\ HelperIdle

Others == <<cfg, pairVars, sanVars, tileVars, helperVars>>

VisionGenerate ==
    /\ run.pc = "vision"
    /\ \E out \in VisionOutcomes : run' = VisionStep(run, cfg, out)
    /\ UNCHANGED Others

FallbackGenerate ==
    /\ run.pc = "fallback"
    /\ \E out \in FallbackOutcomes : run' = FallbackStep(run, cfg, out)
    /\ UNCHANGED Others

NextElement ==
    /\ run.pc = "loop"
    /\ run.taken < MaxElems(run.src)
    /\ \E e \in ElementsOf(run.src) : run' = TakeStep(run, cfg, e)
    /\ UNCHANGED Others

\* the for loop ends: a response that gave elements gave at least one
EndOfElements ==
    /\ run.pc = "loop"
    /\ run.src # "none" => run.taken >= 1
    /\ run' = [run EXCEPT !.pc = "report", !.save_answer = "none",
                          !.lookup = "none"]
    /\ UNCHANGED Others

EmbedQuery ==
    /\ run.pc = "embed_query"
    /\ \E out \in EmbedOutcomes : run' = EmbedQueryStep(run, out)
    /\ UNCHANGED Others

SearchStore ==
    /\ run.pc = "search"
    /\ \E out \in SearchOutcomes : run' = SearchStep(run, out)
    /\ UNCHANGED Others

Gate ==
    /\ run.pc = "gate"
    /\ run' = GateStep(run, cfg)
    /\ UNCHANGED Others

InferPurpose ==
    /\ run.pc = "purpose"
    /\ \E out \in PurposeOutcomes : run' = PurposeStep(run, out)
    /\ UNCHANGED Others

Admit ==
    /\ run.pc = "admit"
    /\ run' = AdmitStep(run, cfg)
    /\ UNCHANGED Others

EmbedRecord ==
    /\ run.pc = "embed_record"
    /\ \E out \in EmbedOutcomes : run' = EmbedRecordStep(run, out)
    /\ UNCHANGED Others

SaveRecord ==
    /\ run.pc = "save"
    /\ \E out \in SaveOutcomes : run' = SaveStep(run, out)
    /\ UNCHANGED Others

Report ==
    /\ run.pc = "report"
    /\ run' = ReportStep(run)
    /\ UNCHANGED Others

OcrTile ==
    /\ run.pc = "ocr"
    /\ run.tiles_done < MaxTiles
    /\ \E out \in OcrOutcomes : run' = OcrTileStep(run, out)
    /\ UNCHANGED Others

OcrDone ==
    /\ run.pc = "ocr"
    /\ run.tiles_done >= 1
    /\ run' = OcrDoneStep(run, cfg)
    /\ UNCHANGED Others

HybridGenerate ==
    /\ run.pc = "hybrid_generate"
    /\ \E out \in HybridOutcomes : run' = HybridGenerateStep(run, cfg, out)
    /\ UNCHANGED Others

TextGenerate ==
    /\ run.pc = "text_generate"
    /\ \E out \in TextOutcomes : run' = TextGenerateStep(run, out)
    /\ UNCHANGED Others

Validate ==
    /\ run.pc = "validate"
    /\ run' = ValidateStep(run, cfg)
    /\ UNCHANGED Others

TextRetry ==
    /\ run.pc = "text_retry"
    /\ \E out \in RetryOutcomes : run' = TextRetryStep(run, out)
    /\ UNCHANGED Others

HybridOutcome ==
    /\ run.pc = "outcomes"
    /\ run.taken < Len(run.valid_items)
    /\ run' = HybridOutcomeStep(run, cfg)
    /\ UNCHANGED Others

HybridReport ==
    /\ run.pc = "outcomes"
    /\ run.taken = Len(run.valid_items)
    /\ run' = ReportStep(run)
    /\ UNCHANGED Others

Next ==
    \/ VisionGenerate
    \/ FallbackGenerate
    \/ NextElement
    \/ EndOfElements
    \/ EmbedQuery
    \/ SearchStore
    \/ Gate
    \/ InferPurpose
    \/ Admit
    \/ EmbedRecord
    \/ SaveRecord
    \/ Report
    \/ OcrTile
    \/ OcrDone
    \/ HybridGenerate
    \/ TextGenerate
    \/ Validate
    \/ TextRetry
    \/ HybridOutcome
    \/ HybridReport

Spec == Init /\ [][Next]_vars

----------------------------------------------------------------------------
(* Two runs of main on the same screen: the same elements in the same      *)
(* order and the same answer of every service to the same request, under   *)
(* two command lines.  Each run is sequential and shares nothing with the  *)
(* other, so the two are advanced one loop iteration at a time.            *)

\* bound: the elements of the screen
MaxPairElements == 3

PairLabels == <<Save, Open, Edit, save_padded>>

\* the k-th element of the screen
PairElements(k) ==
    [label : {PairLabels[k]}, role : {button}, purpose : Purposes,
     confidence : {FallbackConfidence, DefaultVisionThreshold}]

\* what the services answer to the requests made for one element
Answers ==
    [embed : {"vector"},
     search : {[status |-> "ok", score |-> s] : s \in Scores},
     purpose : {[status |-> "ok", text |-> opens_quoted],
                [status |-> "timeout", text |-> <<>>]},
     embed_record : {"vector", "empty", "timeout"},
     save : {"ok"}]

\* the command lines compared: lo has the lower threshold
Pairs ==
    LET base == [hybrid |-> FALSE, text_purpose_model |-> TRUE,
                 min_questions |-> 1,
                 mem_threshold |-> DefaultMemoryThreshold,
                 vision_threshold |-> DefaultVisionThreshold,
                 max_elements |-> DefaultMaxElements]
    IN  {<<base, [base EXCEPT !.mem_threshold = 95]>>,
         <<[base EXCEPT !.vision_threshold = FallbackConfidence], base>>}
            \cup {<<[base EXCEPT !.max_elements = 2],
                    [base EXCEPT !.max_elements = 2, !.mem_threshold = 95]>>}

\* lines 693-740: the step of main at r.pc, given the answers
StepWith(r, c, ans) ==
    CASE r.pc = "embed_query" -> EmbedQueryStep(r, ans.embed)
      [] r.pc = "search" -> SearchStep(r, ans.search)
      [] r.pc = "gate" -> GateStep(r, c)
      [] r.pc = "purpose" -> PurposeStep(r, ans.purpose)
      [] r.pc = "admit" -> AdmitStep(r, c)
      [] r.pc = "embed_record" -> EmbedRecordStep(r, ans.embed_record)
      [] r.pc = "save" -> SaveStep(r, ans.save)
      [] OTHER -> r

RECURSIVE Drive(_, _, _)
Drive(r, c, ans) ==
    IF r.pc \in {"loop", "report", "done", "crashed"} THEN r
    ELSE Drive(StepWith(r, c, ans), c, ans)

\* lines 662-740: one iteration of the loop, if the run is still in it
Iterate(p, e, ans) ==
    IF p.run.pc = "loop"
    THEN [p EXCEPT !.run = Drive(TakeStep(p.run, p.cfg, e), p.cfg, ans)]
    ELSE p

\* lines 742-756: the loop is over
Finish(p) ==
    IF p.run.pc \in {"loop", "report"}
    THEN [p EXCEPT !.run = ReportStep(p.run)]
    ELSE p

\* the two runs once the elements are extracted (line 432)
InitPair ==
    /\ \E pair \in Pairs :
          /\ lo = [cfg |-> pair[1],
                   run |-> [StartOfRun EXCEPT !.src = "json", !.pc = "loop"]]
          /\ hi = [cfg |-> pair[2],
                   run |-> [StartOfRun EXCEPT !.src = "json", !.pc = "loop"]]
    /\ cfg = <<>>
    /\ run = <<>>
    /\ SanIdle
    /\ TileIdle
    /\ HelperIdle

Seen(p) == p.run.taken

PairElement ==
    /\ lo.run.pc = "loop" \/ hi.run.pc = "loop"
    /\ \E k \in 1..MaxPairElements :
          /\ k = 1 + Max(Seen(lo), Seen(hi))
          /\ k <= Len(PairLabels)
          /\ \E e \in PairElements(k), ans \in Answers :
                /\ lo' = Iterate(lo, e, ans)
                /\ hi' = Iterate(hi, e, ans)
    /\ UNCHANGED <<cfg, run, sanVars, tileVars, helperVars>>

\* the for loop ends in both runs: the response gave at least one element
PairEnd ==
    /\ lo.run.pc \in {"loop", "report"} \/ hi.run.pc \in {"loop", "report"}
    /\ Max(Seen(lo), Seen(hi)) >= 1
    /\ lo' = Finish(lo)
    /\ hi' = Finish(hi)
    /\ UNCHANGED <<cfg, run, sanVars, tileVars, helperVars>>

NextPair == PairElement \/ PairEnd

SpecPair == InitPair /\ [][NextPair]_vars

----------------------------------------------------------------------------
(* JSON extraction: _extract_json.  A text is a sequence of characters;    *)
(* the three backticks of a code fence are written as the one token FENCE. *)

FENCE == "BACKTICKS"
NL == "\n"

Contains(s, ch) == \E i \in 1..Len(s) : s[i] = ch

\* str.find and str.rfind, counted from 1; 0 when ch is not in s
Find(s, ch) ==
    IF Contains(s, ch)
    THEN CHOOSE i \in 1..Len(s) : s[i] = ch /\ \A j \in 1..(i - 1) : s[j] # ch
    ELSE 0
RFind(s, ch) ==
    IF Contains(s, ch)
    THEN CHOOSE i \in 1..Len(s) :
             s[i] = ch /\ \A j \in (i + 1)..Len(s) : s[j] # ch
    ELSE 0

\* line 22: text.split(fence)
RECURSIVE SplitOn(_, _)
SplitOn(s, sep) ==
    IF ~Contains(s, sep) THEN <<s>>
    ELSE <<SubSeq(s, 1, Find(s, sep) - 1)>>
             \o SplitOn(SubSeq(s, Find(s, sep) + 1, Len(s)), sep)

HasOpening(p) == Contains(p, "{") \/ Contains(p, "[")

\* lines 23-26: the first part that holds an opening character
RECURSIVE FirstWithOpening(_, _)
FirstWithOpening(parts, text) ==
    IF parts = <<>> THEN text
    ELSE IF HasOpening(Head(parts)) THEN Head(parts)
    ELSE FirstWithOpening(Tail(parts), text)

\* lines 21-26
UnfencedNever(text) == text
Unfenced(text) ==
    IF Contains(text, FENCE) THEN FirstWithOpening(SplitOn(text, FENCE), text)
    ELSE text

\* lines 20-39
extract_json(text) ==
    LET t == Unfenced(text)
        start_obj == Find(t, "{")
        start_arr == Find(t, "[")
        start == IF start_arr = 0 \/ (start_obj # 0 /\ start_obj < start_arr)
                 THEN start_obj ELSE start_arr
        sliced == SubSeq(t, start, Len(t))
        end == IF sliced[1] = "{" THEN RFind(sliced, "}")
               ELSE RFind(sliced, "]")
    IN  IF start_obj = 0 /\ start_arr = 0 THEN <<"{", "}">>
        ELSE IF end = 0 THEN sliced
        ELSE SubSeq(sliced, 1, end)

\* the JSON object texts given, the last with a fence inside a string
JsonObjects ==
    { <<"{", "}">>,
      <<"{", DQ, "a", DQ, ":", "1", "}">>,
      <<"{", DQ, "a", DQ, ":", "[", "1", "]", "}">>,
      <<"{", DQ, "a", DQ, ":", "{", "}", "}">>,
      <<"{", DQ, "a", DQ, ":", DQ, FENCE, DQ, "}">> }

\* what a response puts around the object
ProseBefore ==
    { <<>>, <<"H", "e", "r", "e", ":", NL>>,
      <<"T", "h", "e", " ", "[", "U", "I", "]", ":", NL>>,
      <<"{", "a", "}", NL>> }
LanguageTags == { <<>>, <<NL>>, <<"j", "s", "o", "n", NL>>, <<"j", "s", "o", "n", SP>> }
ProseAfter == { <<>>, <<NL, "D", "o", "n", "e">>, <<NL, "}">> }

Fenced(before, tag, x, after) ==
    before \o <<FENCE>> \o tag \o x \o <<NL, FENCE>> \o after

InitJson ==
    /\ \E x \in JsonObjects, before \in ProseBefore, tag \in LanguageTags,
          after \in ProseAfter :
          ext = [pc |-> "start", x |-> x, before |-> before,
                 text |-> Fenced(before, tag, x, after),
                 bare |-> <<>>, fenced |-> <<>>]
    /\ emb = <<>>
    /\ lab = <<>>
    /\ rst = <<>>
    /\ SanIdle
    /\ TileIdle
    /\ cfg = <<>>
    /\ run = <<>>
    /\ PairIdle

ExtractBare ==
    /\ ext.pc = "start"
    /\ ext' = [ext EXCEPT !.bare = extract_json(ext.x), !.pc = "bare"]
    /\ UNCHANGED <<emb, lab, rst, sanVars, tileVars, runVars>>

ExtractFenced ==
    /\ ext.pc = "bare"
    /\ ext' = [ext EXCEPT !.fenced = extract_json(ext.text), !.pc = "done"]
    /\ UNCHANGED <<emb, lab, rst, sanVars, tileVars, runVars>>

NextJson == ExtractBare \/ ExtractFenced

SpecJson == InitJson /\ [][NextJson]_vars

----------------------------------------------------------------------------
(* The seeding scripts: main, get_embedding and save_to_qdrant of          *)
(* seed_common_ui.py (seed_text_editor.py has the same get_embedding).     *)
(* emb holds the loop of main over the items and, for the call of          *)
(* get_embedding in progress, its frames (the call and its recursive       *)
(* calls), the embedding requests and the pulls it has issued.             *)

\* bounds: the items seeded, and the frames of one call of get_embedding
MaxSeedItems == 2
MaxFrames == 4

StartOfSeeding ==
    [pc |-> "next", item |-> 0, frames |-> 0, requests |-> 0, pulls |-> 0,
     calls |-> <<>>, saved |-> 0]

\* lines 28-29 and 37: every frame returns what the innermost one returns
EmbReturn(e, result) ==
    [e EXCEPT !.calls = Append(@, [requests |-> e.requests,
                                   pulls |-> e.pulls, result |-> result]),
              !.pc = IF result = "vector" THEN "save" ELSE "next"]

\* lines 24-31 and 35-37: the embedding request of one frame
EmbRequestStep(e, out) ==
    LET sent == [e EXCEPT !.requests = @ + 1]
    IN  CASE out = "http_200" -> EmbReturn(sent, "vector")
          [] out = "http_404" -> [sent EXCEPT !.pc = "pull"]
          [] OTHER -> EmbReturn(sent, "none")

\* lines 32-34: the pull, whose answer is not read, and the recursive call
EmbPullStep(e, out) ==
    LET sent == [e EXCEPT !.pulls = @ + 1]
    IN  IF out = "answered"
        THEN [sent EXCEPT !.frames = @ + 1, !.pc = "request"]
        ELSE EmbReturn(sent, "none")

EmbRequestOutcomes == {"http_200", "http_404", "http_500", "connection_error"}
PullOutcomes == {"answered", "connection_error"}

InitSeed ==
    /\ emb = StartOfSeeding
    /\ ext = <<>>
    /\ lab = <<>>
    /\ rst = <<>>
    /\ SanIdle
    /\ TileIdle
    /\ cfg = <<>>
    /\ run = <<>>
    /\ PairIdle

SeedRest == <<ext, lab, rst, sanVars, tileVars, runVars>>

\* seed_common_ui.py lines 86-101: the next item is embedded
SeedNext ==
    /\ emb.pc = "next"
    /\ emb.item < MaxSeedItems
    /\ emb' = [emb EXCEPT !.item = @ + 1, !.frames = 1, !.requests = 0,
                          !.pulls = 0, !.pc = "request"]
    /\ UNCHANGED SeedRest

\* the model stops the recursion at MaxFrames frames
EmbRequest ==
    /\ emb.pc = "request"
    /\ \E out \in EmbRequestOutcomes :
          /\ out = "http_404" => emb.frames < MaxFrames
          /\ emb' = EmbRequestStep(emb, out)
    /\ UNCHANGED SeedRest

EmbPull ==
    /\ emb.pc = "pull"
    /\ \E out \in PullOutcomes : emb' = EmbPullStep(emb, out)
    /\ UNCHANGED SeedRest

\* seed_common_ui.py lines 103-118 and 39-61
SeedSave ==
    /\ emb.pc = "save"
    /\ \E ok \in BOOLEAN :
          emb' = [emb EXCEPT !.saved = IF ok THEN @ + 1 ELSE @, !.pc = "next"]
    /\ UNCHANGED SeedRest

\* seed_common_ui.py line 123
SeedDone ==
    /\ emb.pc = "next"
    /\ emb.item = MaxSeedItems
    /\ emb' = [emb EXCEPT !.pc = "done"]
    /\ UNCHANGED SeedRest

NextSeed == SeedNext \/ EmbRequest \/ EmbPull \/ SeedSave \/ SeedDone

SpecSeed == InitSeed /\ [][NextSeed]_vars

----------------------------------------------------------------------------
(* The two paths that sanitize labels: _extract_ocr_labels_from_tsv        *)
(* (lines 145-166) and the label-listing fallback (lines 402-421).         *)

MaxFragments == 1

SaveAs == <<"S", "a", "v", "e", " ", " ", "A", "s">>

\* what recognition or a model puts around a label
Opening == {<<>>, <<"[">>, <<"|">>, <<"(">>, <<"U+201C">>, <<"U+2018">>}
Closing == {<<>>, <<"]">>, <<"|">>, <<")">>, <<"U+201D">>, <<"U+2019">>}

\* fragments without comma, newline, digit or straight double quote
Fragments ==
    {pre \o core \o post :
        pre \in Opening, core \in {Save, Open, SaveAs}, post \in Closing}

\* lines 402-403: the pieces of re.split(r"[\n,]+", response), stripped,
\* the empty ones left out
RECURSIVE StrippedPieces(_)
StrippedPieces(pieces) ==
    IF pieces = <<>> THEN <<>>
    ELSE IF Strip(Head(pieces)) = <<>> THEN StrippedPieces(Tail(pieces))
    ELSE <<Strip(Head(pieces))>> \o StrippedPieces(Tail(pieces))

\* lines 402-421, for a response without digit and straight double quote:
\* the numbered-list split (404-406) needs a digit, and with no label left
\* the JSON decoding (407-416) fails and the quoted-string scan (417-419)
\* matches nothing
fallback_labels(pieces) == clean_label_list(StrippedPieces(pieces))

InitLabels ==
    /\ \E pieces \in SeqsUpTo(Fragments, MaxFragments) \ {<<>>} :
          lab = [pc |-> "response", pieces |-> pieces, labels |-> <<>>]
    /\ ext = <<>>
    /\ emb = <<>>
    /\ rst = <<>>
    /\ SanIdle
    /\ TileIdle
    /\ cfg = <<>>
    /\ run = <<>>
    /\ PairIdle

LabelsRest == <<ext, emb, rst, sanVars, tileVars, runVars>>

\* the pieces are the text column of the recognition records
SanitizeRecognized ==
    /\ lab.pc = "response"
    /\ lab' = [lab EXCEPT !.pc = "recognized",
                          !.labels = extract_ocr_labels_from_tsv(lab.pieces)]
    /\ UNCHANGED LabelsRest

\* the pieces are the answer to the label-listing request
SanitizeListed ==
    /\ lab.pc = "response"
    /\ lab' = [lab EXCEPT !.pc = "listed",
                          !.labels = fallback_labels(lab.pieces)]
    /\ UNCHANGED LabelsRest

NextLabels ==
    \/ SanitizeRecognized
    \/ SanitizeListed

SpecLabels == InitLabels /\ [][NextLabels]_vars

----------------------------------------------------------------------------
(* reset_and_seed_all.py: the collection is deleted and created, then the  *)
(* seed scripts are run.                                                   *)

\* lines 12-18
SCRIPTS_TO_RUN ==
    <<"seed_expert_memory.py", "seed_common_ui.py", "seed_file_explorer.py",
      "seed_text_editor.py", "seed_browser_knowledge.py">>

\* how a request to the store ends: status 200, another status, or an
\* exception of requests
StoreAnswers == {"http_200", "http_other", "network_error"}

\* how subprocess.run(..., check=True) ends: exit status 0, a non-zero
\* exit status (CalledProcessError), or the interpreter could not be
\* started (OSError)
ScriptEnds == {"exit_0", "exit_nonzero", "not_started"}

StartOfReset == [pc |-> "delete", log |-> <<>>]

\* lines 20-29 and 31-47: the request is sent; whatever it answers is
\* printed and the function returns
StoreRequestStep(r, op, answer, then) ==
    [r EXCEPT !.log = Append(@, [op |-> op, end |-> answer]), !.pc = then]

\* lines 49-56 and 67-68: the script is started; CalledProcessError is
\* caught, any other exception leaves main
RunScriptStep(r, end) ==
    LET script == SCRIPTS_TO_RUN[Len(r.log) - 1]
        started == [r EXCEPT !.log = Append(@, [op |-> script, end |-> end])]
    IN  IF end = "not_started" THEN [started EXCEPT !.pc = "crashed"]
        ELSE IF Len(started.log) = Len(SCRIPTS_TO_RUN) + 2
        THEN [started EXCEPT !.pc = "complete"]
        ELSE started

InitReset ==
    /\ rst = StartOfReset
    /\ ext = <<>>
    /\ emb = <<>>
    /\ lab = <<>>
    /\ SanIdle
    /\ TileIdle
    /\ cfg = <<>>
    /\ run = <<>>
    /\ PairIdle

ResetRest == <<ext, emb, lab, sanVars, tileVars, runVars>>

\* line 63
DeleteCollection ==
    /\ rst.pc = "delete"
    /\ \E answer \in StoreAnswers :
          rst' = StoreRequestStep(rst, "delete", answer, "create")
    /\ UNCHANGED ResetRest

\* line 64
CreateCollection ==
    /\ rst.pc = "create"
    /\ \E answer \in StoreAnswers :
          rst' = StoreRequestStep(rst, "create", answer, "seed")
    /\ UNCHANGED ResetRest

\* lines 67-68
RunScript ==
    /\ rst.pc = "seed"
    /\ \E end \in ScriptEnds : rst' = RunScriptStep(rst, end)
    /\ UNCHANGED ResetRest

\* line 70
SequenceComplete ==
    /\ rst.pc = "complete"
    /\ rst' = [rst EXCEPT !.pc = "done"]
    /\ UNCHANGED ResetRest

NextReset ==
    \/ DeleteCollection
    \/ CreateCollection
    \/ RunScript
    \/ SequenceComplete

SpecReset == InitReset /\ [][NextReset]_vars

----------------------------------------------------------------------------
(* Claims about the pipeline.                                              *)

InSeq(x, s) == \E i \in 1..Len(s) : s[i] = x

WritesFor(label) ==
    {i \in 1..Len(run.writes) : run.writes[i].target_text = label}

LearnedFor(label) ==
    {i \in 1..Len(run.learned) : run.learned[i].label = label}

\* C1: no failure of an external call is fatal to a run: whatever a
\* generate, embed, search, upsert or recognition call answers, the run is
\* not ended by it and goes on to its report.
C1_NoFailureIsFatal == run.pc # "crashed"

\* C2: an element whose best-match score is >= memory_threshold gets no
\* purpose-inference request and no store write, and its label is in
\* neither the questions nor the learned items.
C2_KnownElementSkipped ==
    \A i \in 1..Len(run.handled) :
        LET h == run.handled[i]
        IN  (~cfg.hybrid /\ h.score >= cfg.mem_threshold) =>
                /\ ~InSeq(h.label, run.inferred)
                /\ WritesFor(h.label) = {}
                /\ ~InSeq(Question(h.label), run.questions)
                /\ LearnedFor(h.label) = {}

C2_Witness ==
    /\ run.pc = "done"
    /\ ~cfg.hybrid
    /\ Len(run.handled) = 2
    /\ run.handled[1].score >= cfg.mem_threshold
    /\ run.handled[1].extracted_purpose = <<>>
    /\ run.handled[2].score < cfg.mem_threshold
    /\ Len(run.writes) = 1

\* the element is past the known-element check with the purpose it was
\* extracted with and a confidence that admits it
Admissible(e, score) ==
    /\ ~cfg.hybrid
    /\ score < cfg.mem_threshold
    /\ e.extracted_purpose # <<>>
    /\ e.confidence >= cfg.vision_threshold

GoalOfPurpose(goal, purpose) ==
    /\ Len(goal) = Len(purpose)
    /\ goal[1] = UpperChar(purpose[1])
    /\ Tail(goal) = Tail(purpose)

WritesAreOf(label, purpose) ==
    \A i \in WritesFor(label) : GoalOfPurpose(run.writes[i].goal, purpose)

C13_WritesHaveExpectedLength ==
    \A i \in 1..Len(run.writes) : run.writes[i].vector_len = ExpectedDimension

\* the order of the extraction steps
ChainOrder == <<"json", "regex", "fallback">>

\* C14: the regex scan is applied only when JSON decoding yielded no
\* elements, the label-listing request is issued only when both earlier
\* steps yielded none, and the elements of a step that yielded some are the
\* elements of the run.
C14_ChainStopsAtFirstResult ==
    /\ Len(run.chain) <= Len(ChainOrder)
    /\ \A i \in 1..Len(run.chain) :
        /\ run.chain[i].step = ChainOrder[i]
        /\ \A j \in 1..(i - 1) : ~run.chain[j].found
        /\ run.chain[i].found => run.src = run.chain[i].step
    /\ run.src # "none" =>
        \E i \in 1..Len(run.chain) :
            run.chain[i].found /\ run.chain[i].step = run.src

\* a run whose elements came from the label-listing request, issued after
\* both earlier steps found nothing
C14_Witness ==
    /\ Len(run.chain) = Len(ChainOrder)
    /\ run.chain[Len(ChainOrder)].found
    /\ run.src = "fallback"
    /\ Len(run.handled) > 0

\* C15: in direct mode and in hybrid mode, the number of elements that
\* reach an outcome (skipped as known, learned, or asked about) never
\* exceeds max_elements.
C15_OutcomesWithinMaxElements == Len(run.handled) <= cfg.max_elements

\* the label a question asks about
LabelOfQuestion(q) == SubSeq(q, 3, Len(q) - 2)

\* the labels of the learned list followed by those of the questions list
ReportedLabels ==
    [i \in 1..Len(run.learned) |-> run.learned[i].label]
        \o [i \in 1..Len(run.questions) |-> LabelOfQuestion(run.questions[i])]

\* C16: in direct mode and in hybrid mode, no two elements reported by a
\* run, in the questions list or the learned list, have labels that are
\* equal case-insensitively, and every reported label is non-empty.
C16_ReportedLabelsUnique ==
    \A i \in 1..Len(ReportedLabels) :
        /\ ReportedLabels[i] # <<>>
        /\ \A j \in 1..Len(ReportedLabels) :
            Lower(ReportedLabels[i]) = Lower(ReportedLabels[j]) => i = j

\* C17: every item that passes validation in hybrid mode has a role in
\* {button, tab, menu, link, input, folder, window, other}.
C17_ValidRolesEnumerated ==
    \A i \in 1..Len(run.valid_items) : run.valid_items[i].role \in Roles

\* the requests of a run to the text-only model are made without an
\* image, after the request to the vision model and with its labels
TextRequestsWellFormed ==
    \A i \in 1..Len(run.requests) :
        run.requests[i].model = "text" =>
            /\ i > 1
            /\ run.requests[1].model = "vision"
            /\ ~run.requests[i].image
            /\ run.requests[i].labels = run.requests[1].labels

TextRequested ==
    \E i \in 1..Len(run.requests) : run.requests[i].model = "text"

\* C18 as stated: the text-only model is requested only after the vision
\* model's hybrid response yielded no parseable item, without an image and
\* with the same label list, and never when the vision response yielded a
\* valid item.
C18_TextOnlyAfterNoParseableItem ==
    /\ TextRequestsWellFormed
    /\ TextRequested => ~run.vision_parsed /\ ~run.vision_valid

\* C18 as the code has it: the text-only model is requested only after
\* the vision model's hybrid response yielded no valid item (no parseable
\* item, or parseable items that all lack a label), without an image and
\* with the same label list.
C18_TextOnlyAfterNoValidItem ==
    /\ TextRequestsWellFormed
    /\ TextRequested => ~run.vision_valid

\* the text-only model was asked after the vision response yielded an item
\* without a label, and its answer gave the run its items
C18_Witness ==
    /\ TextRequested
    /\ run.vision_parsed
    /\ run.pc = "outcomes"
    /\ run.taken > 0

\* C19: every run that terminates, in direct or hybrid mode and also when
\* a stage produced no result, has emitted the report.
C19_EndedRunsReported == run.pc \in {"done", "returned"} => run.reported

\* C20: in hybrid mode as in direct mode, every element reported as
\* learned has passed the gate: its label was embedded, searched in the
\* store and scored below memory_threshold before it was learned.
C20_LearnedPassedGate ==
    \A i \in 1..Len(run.learned) : InSeq(run.learned[i].label, run.passed)

\* C21: when the recognition tool is unavailable, exits non-zero or its
\* output cannot be decoded, recognition of that tile yields no fragments
\* and no exception reaches the caller, so the remaining tiles are still
\* processed.
C21_FailedTileYieldsNothing ==
    /\ run.failed_at # "ocr"
    /\ \A i \in 1..Len(run.ocr_log) :
        run.ocr_log[i].failed => run.ocr_log[i].fragments = <<>>
    /\ run.pc = "ocr" => Len(run.ocr_log) = run.tiles_done

\* a tile on which the tool failed, followed by a tile that was read
C21_Witness ==
    /\ run.pc = "ocr"
    /\ Len(run.ocr_log) = MaxTiles
    /\ run.ocr_log[1].failed
    /\ ~run.ocr_log[MaxTiles].failed
    /\ run.ocr_log[MaxTiles].fragments # <<>>

\* C22: when the store answers an upsert with status 404 or 400, the write
\* is abandoned without raising, the run continues with the next element,
\* and no retry of that upsert is issued.
C22_RefusedUpsertSwallowed ==
    run.save_answer \in {"http_404", "http_400"} =>
        /\ run.pc = "loop"
        /\ run.failed = "none"
        /\ run.cur = NoElement
        /\ Cardinality(WritesFor(run.handled[Len(run.handled)].label)) = 1

\* the upsert of a run's second written element was refused, and the run
\* is back at the head of its loop
C22_WitnessRefused ==
    /\ run.save_answer \in {"http_404", "http_400"}
    /\ Len(run.handled) = 2
    /\ Len(run.writes) = 2

\* C24: within one run no role/purpose request is issued a second time
\* with the same prompt and the same model; the text-only prompt is sent at
\* most once.
C24_NoRequestRepeated ==
    /\ \A i, j \in 1..Len(run.requests) :
        run.requests[i] = run.requests[j] => i = j
    /\ run.text_requests <= 1

\* C25: every element handled by the gate, and every confidence placed in
\* a record sent to the store, has a confidence in [0,1], whatever
\* confidence the response carried.
C25_ConfidenceInRange ==
    /\ \A i \in 1..Len(run.handled) :
        run.handled[i].confidence \in 0..100
    /\ \A i \in 1..Len(run.writes) :
        run.writes[i].confidence \in 0..100

\* C26: every validated hybrid item has confidence 0.7 or 0.8 when the
\* response supplied none, and an item produced by vision or text triplets
\* has a strictly higher confidence than one produced by the salvage of the
\* last text answer.
C26_ConfidenceByTier ==
    \A i \in 1..Len(run.valid_items) :
        /\ ~run.valid_items[i].supplied =>
            run.valid_items[i].confidence \in {70, 80}
        /\ run.tier \in {"vision_lines", "text_lines"} =>
            run.valid_items[i].confidence > SalvageConfidence

\* C27: in direct mode, every element in the learned list of a run had an
\* upsert request issued to the store for it during that run, also when
\* the embedding of the record text came back empty.
C27_LearnedImpliesWritten ==
    ~cfg.hybrid =>
        \A i \in 1..Len(run.learned) : WritesFor(run.learned[i].label) # {}

\* C28: a purpose-inference answer never changes an element's confidence,
\* so in direct mode an element whose extracted confidence is below
\* vision_threshold is never written to the store nor listed as learned;
\* every element synthesized by the regex or label-listing fallback has
\* confidence 0.4 and is neither written nor learned when vision_threshold
\* is above 0.4.
C28_LowConfidenceNeverAdmitted ==
    ~cfg.hybrid =>
        /\ run.cur.confidence = run.cur.extracted_confidence
        /\ \A i \in 1..Len(run.handled) :
            /\ run.handled[i].confidence = run.handled[i].extracted_confidence
            /\ run.handled[i].extracted_confidence < cfg.vision_threshold =>
                /\ WritesFor(run.handled[i].label) = {}
                /\ LearnedFor(run.handled[i].label) = {}
            /\ run.src \in {"regex", "fallback"} =>
                run.handled[i].confidence = FallbackConfidence
        /\ (run.src \in {"regex", "fallback"}
            /\ cfg.vision_threshold > FallbackConfidence) =>
                run.writes = <<>> /\ run.learned = <<>>

\* a synthesized element for which purpose inference gave a purpose, and
\* which was handled without being admitted
C28_Witness ==
    /\ ~cfg.hybrid
    /\ run.src = "regex"
    /\ \E i \in 1..Len(run.handled) :
        /\ run.handled[i].extracted_confidence < cfg.vision_threshold
        /\ run.handled[i].extracted_purpose = <<>>
        /\ run.handled[i].purpose # <<>>

\* the lookups that find nothing to compare the element with
MissingLookups == {"empty_embedding", "http_404", "no_result"}

\* C29: when the store search answers 404 or returns no result, or the
\* query embedding is empty, the score used by the gate is 0, so for every
\* memory_threshold > 0 the element is not skipped as already known.
C29_MissingMeansNovel ==
    (run.lookup \in MissingLookups /\ cfg.mem_threshold > 0) =>
        /\ run.score = 0
        /\ run.pc \in {"gate", "purpose", "admit"}
        /\ run.pc # "gate" =>
            /\ run.passed # <<>>
            /\ run.passed[Len(run.passed)] = run.cur.label

\* an element whose query embedding was empty has passed the gate
C29_Witness ==
    /\ run.lookup = "empty_embedding"
    /\ run.pc = "purpose"
    /\ InSeq(run.cur.label, run.passed)

\* the elements that reached the question branch: past the known-element
\* check and not admitted, or in hybrid mode without a purpose
NotAdmitted(h) ==
    IF cfg.hybrid THEN h.purpose = <<>>
    ELSE /\ h.score < cfg.mem_threshold
         /\ ~(h.purpose # <<>> /\ h.confidence >= cfg.vision_threshold)

RECURSIVE QuestionsOf(_)
QuestionsOf(handled) ==
    IF handled = <<>> THEN <<>>
    ELSE IF NotAdmitted(Head(handled))
    THEN <<Question(Head(handled).label)>> \o QuestionsOf(Tail(handled))
    ELSE QuestionsOf(Tail(handled))

\* C4: at most min_questions questions are enqueued, and they are the
\* questions of the first min_questions elements that were not admitted,
\* in the order these elements were seen.
C4_QuestionCap ==
    LET asked == QuestionsOf(run.handled)
    IN  /\ Len(run.questions) <= cfg.min_questions
        /\ run.questions =
               SubSeq(asked, 1, Min(cfg.min_questions, Len(asked)))

C4_Witness ==
    /\ cfg.min_questions = 2
    /\ Len(run.handled) = 3
    /\ \A i \in 1..3 : NotAdmitted(run.handled[i])
    /\ run.questions = <<Question(run.handled[1].label),
                         Question(run.handled[2].label)>>
    /\ run.reported

Ended(p) == p.run.pc \in {"done", "crashed"}

\* C9: of two runs over the same elements with the same scores,
\* confidences and max_elements, the one with the higher memory_threshold
\* sends at least as many elements past the known-element check.
C9_MemoryThresholdMonotone ==
    (/\ Ended(lo) /\ Ended(hi)
     /\ lo.cfg.mem_threshold < hi.cfg.mem_threshold) =>
        Len(hi.run.passed) >= Len(lo.run.passed)

\* C10: of two runs over the same elements with the same scores,
\* confidences, purpose-inference answers and memory_threshold, the one
\* with the higher vision_threshold writes no more elements to the store.
C10_VisionThresholdMonotone ==
    (/\ Ended(lo) /\ Ended(hi)
     /\ lo.cfg.vision_threshold < hi.cfg.vision_threshold) =>
        Len(hi.run.writes) <= Len(lo.run.writes)

----------------------------------------------------------------------------
(* Claims about the paths that sanitize labels, checked under SpecLabels.  *)

\* what a fragment is after normalization and trimming
NormalForm(f) == TrimLabel(NormalizeFragment(f))

\* C23: on the OCR path and on the label-listing path, curly quotes are
\* made straight, internal whitespace is collapsed and leading and trailing
\* bracket and pipe characters are stripped before the reject tests, so a
\* fragment that is acceptable after normalization is kept in normalized
\* form.
C23_NormalizedThenKept ==
    lab.pc \in {"recognized", "listed"} =>
        \A i \in 1..Len(lab.pieces) :
            ~RejectLabel(NormalForm(lab.pieces[i])) =>
                InSeq(NormalForm(lab.pieces[i]), lab.labels)

----------------------------------------------------------------------------
(* Claims about reset_and_seed_all.py, checked under SpecReset.            *)

\* the operations of the full sequence, in order
ResetOrder == <<"delete", "create">> \o SCRIPTS_TO_RUN

\* C30: the delete request is issued before the create request, every seed
\* script is started only after the create request and in the listed
\* order, and each listed script is attempted exactly once even when the
\* delete, the create or an earlier seed script failed.
C30_ResetThenEverySeed ==
    /\ Len(rst.log) <= Len(ResetOrder)
    /\ \A i \in 1..Len(rst.log) : rst.log[i].op = ResetOrder[i]
    /\ rst.pc \in {"done", "crashed"} => Len(rst.log) = Len(ResetOrder)

----------------------------------------------------------------------------
(* Claims about _extract_json, checked under SpecJson.                     *)

\* C11 as stated: the helper applied to a JSON object text wrapped in a
\* code fence, with or without a language tag and surrounding prose,
\* returns what it returns for the object text alone.
C11_FenceIsTransparent ==
    ext.pc = "done" => ext.fenced = ext.bare

\* C11: when the prose before the fence holds no '{' and no '[', the helper
\* returns for the fenced text what it returns for the object text alone;
\* that result starts at the '{' of the object and, for an object text
\* that holds no fence itself, is the object text up to its last '}'.
C11_FenceTransparentAfterPlainProse ==
    (ext.pc = "done" /\ ~HasOpening(ext.before)) =>
        /\ ext.fenced = ext.bare
        /\ ext.bare[1] = "{"
        /\ ~Contains(ext.x, FENCE) => ext.fenced = ext.x

C11_Witness ==
    /\ ext.pc = "done"
    /\ ext.x = <<"{", DQ, "a", DQ, ":", "[", "1", "]", "}">>
    /\ ext.text = Fenced(<<"H", "e", "r", "e", ":", NL>>,
                         <<"j", "s", "o", "n", NL>>, ext.x,
                         <<NL, "D", "o", "n", "e">>)
    /\ ext.fenced = ext.x

----------------------------------------------------------------------------
(* Claims about get_embedding, checked under SpecSeed.                     *)

\* C12: one call of get_embedding issues at most one model pull and at
\* most one retry of its embedding request, whatever the service answers.
C12_SinglePullAndRetry ==
    /\ emb.pulls <= 1
    /\ emb.requests <= 2
    /\ \A i \in 1..Len(emb.calls) :
          emb.calls[i].pulls <= 1 /\ emb.calls[i].requests <= 2

----------------------------------------------------------------------------
(* Claims about the Label Sanitizer, checked under SpecClean.              *)

\* C5: cleaning a cleaned list returns it unchanged:
\* clean(clean(x)) = clean(x) for every input list x.
C5_CleanIdempotent == san_pc = "recleaned" => recleaned = cleaned

Accepted(i) == ~RejectLabel(TrimLabel(labels[i]))

SameLabel(i, j) == Lower(TrimLabel(labels[i])) = Lower(TrimLabel(labels[j]))

\* the accepted inputs with no accepted case-insensitive equal before them
FirstOccurrences ==
    {i \in 1..Len(labels) :
        Accepted(i) /\ \A j \in 1..(i - 1) : Accepted(j) => ~SameLabel(i, j)}

\* the k-th smallest element of a set of numbers
RECURSIVE Nth(_, _)
Nth(S, k) ==
    LET m == CHOOSE x \in S : \A y \in S : x <= y
    IN  IF k = 1 THEN m ELSE Nth(S \ {m}, k - 1)

NoCaseDuplicates(out) ==
    \A i, j \in 1..Len(out) : i # j => Lower(out[i]) # Lower(out[j])

----------------------------------------------------------------------------
(* Claims about the Image Tiler, checked under SpecTile.                   *)

InTile(t, x, y) == t[1] <= x /\ x < t[3] /\ t[2] <= y /\ y < t[4]

\* C7: the union of the g*g sub-tiles covers every point of the parent
\* Region, and no sub-tile extends outside the parent Region.
C7_TilesCoverRegion ==
    tile_pc = "tiled" =>
        /\ \A x \in box[1]..(box[3] - 1) : \A y \in box[2]..(box[4] - 1) :
              \E k \in 1..Len(tiles) : InTile(tiles[k], x, y)
        /\ \A k \in 1..Len(tiles) :
              /\ box[1] <= tiles[k][1] /\ tiles[k][3] <= box[3]
              /\ box[2] <= tiles[k][2] /\ tiles[k][4] <= box[4]

\* the width of the strip two intervals [a0, a1) and [b0, b1) share
Shared(a0, a1, b0, b1) == Max(0, Min(a1, b1) - Max(a0, b0))

\* C8: for g >= 2 and f > 0, two horizontally adjacent sub-tiles share a
\* strip of width >= f/2 * tileWidth and two vertically adjacent ones a strip
\* of height >= f/2 * tileHeight (f = n/d, tileWidth = w/g: as fractions).
C8_AdjacentTilesOverlap ==
    (tile_pc = "tiled" /\ grid >= 2 /\ overlap[1] > 0) =>
        \A r \in 0..(grid - 1) : \A c \in 0..(grid - 2) :
            LET a == tiles[r * grid + c + 1]
                right == tiles[r * grid + c + 2]
                b == tiles[c * grid + r + 1]
                below == tiles[(c + 1) * grid + r + 1]
            IN  /\ Shared(a[1], a[3], right[1], right[3]) * 2 * overlap[2] * grid
                      >= overlap[1] * (box[3] - box[1])
                /\ Shared(b[2], b[4], below[2], below[4]) * 2 * overlap[2] * grid
                      >= overlap[1] * (box[4] - box[2])

====
